---- MODULE Spec2Model ----
(***************************************************************************)
(* Model of connectors/azure-openai-connector.py: AzureOpenAIConnector.    *)
(*                                                                         *)
(* Python strings whose characters matter (prompts, error-body keys and    *)
(* values) are sequences of one-character strings, so that concatenation   *)
(* and the substring test of `in` are computed.  Opaque strings (model      *)
(* names, API versions, keyword names of the request) are TLA+ strings.    *)
(* A Python value of dynamic type is a record [t |-> type, v |-> payload]. *)
(***************************************************************************)
EXTENDS Integers, Sequences, FiniteSets, TLC

VARIABLES ep_arguments, self, pc, prompt, new_params, response, result,
          attempt, first_params

vars == <<ep_arguments, self, pc, prompt, new_params, response, result,
          attempt, first_params>>

(* ---------------------------- bounds ----------------------------------- *)

NumCalls == 2
MaxAttempts == 2

Calls == 1..NumCalls

(* ------------------------- Python values ------------------------------- *)

PyNone == [t |-> "none", v |-> "None"]
PyStr(s) == [t |-> "str", v |-> s]
PyInt(n) == [t |-> "int", v |-> n]
PyList(l) == [t |-> "list", v |-> l]
PyDict(f) == [t |-> "dict", v |-> f]
PyObj(f) == [t |-> "obj", v |-> f]

EmptyDict == [k \in {} |-> PyNone]

K_innererror == <<"i","n","n","e","r","e","r","r","o","r">>
K_code == <<"c","o","d","e">>
K_message == <<"m","e","s","s","a","g","e">>
ResponsibleAIPolicyViolation ==
  <<"R","e","s","p","o","n","s","i","b","l","e","A","I",
    "P","o","l","i","c","y","V","i","o","l","a","t","i","o","n">>

\* str.__contains__: needle occurs as a contiguous run of hay
IsSubstring(needle, hay) ==
  \E i \in 0..(Len(hay) - Len(needle)) :
     SubSeq(hay, i + 1, i + Len(needle)) = needle

\* variant: a str is tested with `==` in place of `in`
PyInStrEquality(x, c) ==
  CASE c.t = "dict" -> IF x \in DOMAIN c.v THEN "True" ELSE "False"
    [] c.t = "str"  -> IF x = c.v THEN "True" ELSE "False"
    [] c.t = "list" -> IF \E k \in 1..Len(c.v) : c.v[k] = PyStr(x)
                       THEN "True" ELSE "False"
    [] OTHER        -> "TypeError"

\* `x in c` for a str x: "True", "False", or "TypeError" when c is not a container
PyIn(x, c) ==
  CASE c.t = "dict" -> IF x \in DOMAIN c.v THEN "True" ELSE "False"
    [] c.t = "str"  -> IF IsSubstring(x, c.v) THEN "True" ELSE "False"
    [] c.t = "list" -> IF \E k \in 1..Len(c.v) : c.v[k] = PyStr(x)
                       THEN "True" ELSE "False"
    [] OTHER        -> "TypeError"

(* --------------------- outcomes of a call ------------------------------ *)

Return(val) == [kind |-> "return", value |-> val]
Raise(exc) == [kind |-> "raise", value |-> exc]
NoOutcome == [kind |-> "none", value |-> PyNone]

Exc(cls, body) == [cls |-> cls, body |-> body]
TypeError == Exc("TypeError", PyNone)
IndexError == Exc("IndexError", PyNone)
AttributeError == Exc("AttributeError", PyNone)

\* `c[k]` for a str k, reached only after `k in c` was true
PyGetItem(c, k) ==
  IF c.t = "dict" THEN Return(c.v[k]) ELSE Raise(TypeError)

(* ------------------- endpoint configuration ---------------------------- *)

DictGet(d, k, default) == IF k \in DOMAIN d THEN d[k] ELSE default

NoParams == [k \in {} |-> ""]
OtherTurns == <<[role |-> "user", content |-> <<"x">>]>>

OptionalParams ==
  { NoParams,
    [model |-> "gpt-4o"],
    [model |-> "gpt-4o", api_version |-> "2023-05-15"],
    [model |-> "gpt-35", temperature |-> 0, messages |-> OtherTurns, timeout |-> 1],
    [temperature |-> 0, timeout |-> 1] }

Fragments == { <<>>, <<"A">> }
PostFragments == { <<>>, <<"Z">> }
SystemPrompts == { <<>>, <<"S">> }
Timeouts == { 300 }

EpArguments ==
  [ token : {"key"}, endpoint : {"https://e"}, optional_params : OptionalParams,
    pre_prompt : Fragments, post_prompt : PostFragments,
    system_prompt : SystemPrompts, timeout : Timeouts ]

Prompts == { <<>>, <<"h","i">> }

(* --------------------------- __init__ ---------------------------------- *)

DefaultApiVersion == "2024-02-01"

ResolveApiVersion(params) == DictGet(params, "api_version", DefaultApiVersion)

\* variant: a missing model resolves to the text of None
ResolveModelNone(params) == DictGet(params, "model", "None")

ResolveModel(params) == DictGet(params, "model", "")

ConnectorInit(ep) ==
  [ token |-> ep.token, endpoint |-> ep.endpoint,
    optional_params |-> ep.optional_params,
    pre_prompt |-> ep.pre_prompt, post_prompt |-> ep.post_prompt,
    system_prompt |-> ep.system_prompt, timeout |-> ep.timeout,
    api_version |-> ResolveApiVersion(ep.optional_params),
    client |-> [ api_key |-> ep.token,
                 api_version |-> ResolveApiVersion(ep.optional_params),
                 azure_endpoint |-> ep.endpoint ],
    model |-> ResolveModel(ep.optional_params) ]

(* ------------------ get_response: building the request ----------------- *)

\* variant: the post fragment is left out
connector_prompt_no_post(s, p) == s.pre_prompt \o p

connector_prompt(s, p) == s.pre_prompt \o p \o s.post_prompt

\* variant: the system turn is sent whether or not a system prompt is set
openai_request_always_system(s, p) ==
  << [role |-> "system", content |-> s.system_prompt],
     [role |-> "user", content |-> connector_prompt(s, p)] >>

openai_request(s, p) ==
  IF s.system_prompt # <<>>
  THEN << [role |-> "system", content |-> s.system_prompt],
          [role |-> "user", content |-> connector_prompt(s, p)] >>
  ELSE << [role |-> "user", content |-> connector_prompt(s, p)] >>

\* {**base, **over}: later keys win
MergeParams(base, over) ==
  [k \in DOMAIN base \cup DOMAIN over |->
     IF k \in DOMAIN over THEN over[k] ELSE base[k]]

\* variant: optional_params unpacked after the explicit fields
BuildParamsOptionalLast(s, p) ==
  MergeParams([model |-> s.model, messages |-> openai_request(s, p),
               timeout |-> s.timeout],
              s.optional_params)

BuildParams(s, p) ==
  MergeParams(s.optional_params,
              [model |-> s.model, messages |-> openai_request(s, p),
               timeout |-> s.timeout])

(* ------------------ get_response: after the await ---------------------- *)

\* variant: choices[-1] in place of choices[0]
process_response_last(resp) ==
  IF Len(resp.choices) = 0 THEN Raise(IndexError)
  ELSE IF resp.choices[Len(resp.choices)].message.t # "obj" THEN Raise(AttributeError)
  ELSE Return(resp.choices[Len(resp.choices)].message.v.content)

\* response.choices[0].message.content
process_response(resp) ==
  IF Len(resp.choices) = 0 THEN Raise(IndexError)
  ELSE IF resp.choices[1].message.t # "obj" THEN Raise(AttributeError)
  ELSE Return(resp.choices[1].message.v.content)

\* variant: `except Exception` in place of `except BadRequestError`
CatchesAnyException(ex) == TRUE

IsBadRequestError(ex) == ex.cls = "BadRequestError"

\* body of `except BadRequestError as ex:`
ExceptBadRequest(ex) ==
  IF ex.body.t = "dict" /\ K_innererror \in DOMAIN ex.body.v
  THEN LET inner == ex.body.v[K_innererror]
           hasCode == PyIn(K_code, inner)
       IN  IF hasCode = "TypeError" THEN Raise(TypeError)
           ELSE IF hasCode = "False" THEN Raise(ex)
           ELSE LET code == PyGetItem(inner, K_code)
                IN  IF code.kind = "raise" THEN code
                    ELSE LET isRai == PyIn(ResponsibleAIPolicyViolation, code.value)
                         IN  IF isRai = "TypeError" THEN Raise(TypeError)
                             ELSE IF isRai = "True" /\ K_message \in DOMAIN ex.body.v
                                  THEN Return(ex.body.v[K_message])
                                  ELSE Raise(ex)
  ELSE Raise(ex)

\* the try/except around the awaited call and _process_response
Complete(remote) ==
  LET tried == IF remote.kind = "raise" THEN remote
               ELSE process_response(remote.value)
  IN  IF tried.kind = "raise" /\ IsBadRequestError(tried.value)
      THEN ExceptBadRequest(tried.value)
      ELSE tried

(* ------------------- what the remote service may answer ---------------- *)

OtherCode == <<"O","t","h","e","r","C","o","d","e">>

CodeValues ==
  { PyStr(ResponsibleAIPolicyViolation),
    PyStr(<<"x">> \o ResponsibleAIPolicyViolation \o <<"y">>),
    PyStr(SubSeq(ResponsibleAIPolicyViolation, 1, Len(ResponsibleAIPolicyViolation) - 1)),
    PyStr(OtherCode),
    PyNone,
    PyInt(400),
    PyList(<<PyStr(ResponsibleAIPolicyViolation)>>),
    PyList(<<>>) }

InnerErrors ==
  { PyNone, PyInt(0), PyStr(<<"e","r","r">> \o K_code), PyStr(<<"o","o","p","s">>),
    PyList(<<PyStr(K_code)>>), PyDict(EmptyDict) }
  \cup { PyDict(K_code :> c) : c \in CodeValues }

MessageValues == { PyStr(<<"r","e","j","e","c","t","e","d">>), PyNone }

ErrorBodies ==
  { PyNone, PyStr(<<"b","a","d">>) }
  \cup { PyDict(MergeParams(i, m)) :
           i \in {EmptyDict} \cup { K_innererror :> x : x \in InnerErrors },
           m \in {EmptyDict} \cup { K_message :> y : y \in MessageValues } }

RaiBody ==
  PyDict((K_innererror :> PyDict(K_code :> PyStr(ResponsibleAIPolicyViolation)))
         @@ (K_message :> PyStr(<<"r","e","j","e","c","t","e","d">>)))

Choice(content) == [message |-> PyObj([content |-> content])]

Responses ==
  { [choices |-> <<>>],
    [choices |-> <<Choice(PyStr(<<"a">>))>>],
    [choices |-> <<Choice(PyStr(<<"a">>)), Choice(PyStr(<<"b">>))>>],
    [choices |-> <<Choice(PyStr(<<"b">>)), Choice(PyStr(<<"a">>)), Choice(PyNone)>>],
    [choices |-> <<Choice(PyNone)>>],
    [choices |-> <<[message |-> PyNone]>>] }

RemoteOutcomes ==
  { Return(r) : r \in Responses }
  \cup { Raise(Exc("BadRequestError", b)) : b \in ErrorBodies }
  \cup { Raise(Exc("APITimeoutError", PyNone)),
         Raise(Exc("RateLimitError", RaiBody)) }

ConcOutcomes ==
  { Return([choices |-> <<Choice(PyStr(<<"a">>))>>]),
    Return([choices |-> <<Choice(PyStr(<<"b">>)), Choice(PyStr(<<"a">>))>>]),
    Raise(Exc("BadRequestError", RaiBody)),
    Raise(Exc("BadRequestError", PyNone)),
    Raise(Exc("APITimeoutError", PyNone)) }

(* ------------------------------ state ---------------------------------- *)

Init ==
  /\ ep_arguments \in EpArguments
  /\ self = ConnectorInit(ep_arguments)
  /\ pc = [i \in Calls |-> "idle"]
  /\ prompt = [i \in Calls |-> <<>>]
  /\ new_params = [i \in Calls |-> NoParams]
  /\ first_params = [i \in Calls |-> NoParams]
  /\ response = [i \in Calls |-> NoOutcome]
  /\ result = [i \in Calls |-> NoOutcome]
  /\ attempt = [i \in Calls |-> 0]

\* variant: the merge is done in place, self.optional_params.update(...)
InvokeUpdatingInPlace(i, p, n) ==
  /\ pc' = [pc EXCEPT ![i] = "awaiting"]
  /\ prompt' = [prompt EXCEPT ![i] = p]
  /\ new_params' = [new_params EXCEPT ![i] = BuildParams(self, p)]
  /\ response' = [response EXCEPT ![i] = NoOutcome]
  /\ result' = [result EXCEPT ![i] = NoOutcome]
  /\ attempt' = [attempt EXCEPT ![i] = n]
  /\ self' = [self EXCEPT !.optional_params = BuildParams(self, p)]
  /\ UNCHANGED ep_arguments

\* get_response(p) runs up to the await: the request is built and sent
Invoke(i, p, n) ==
  /\ pc' = [pc EXCEPT ![i] = "awaiting"]
  /\ prompt' = [prompt EXCEPT ![i] = p]
  /\ new_params' = [new_params EXCEPT ![i] = BuildParams(self, p)]
  /\ response' = [response EXCEPT ![i] = NoOutcome]
  /\ result' = [result EXCEPT ![i] = NoOutcome]
  /\ attempt' = [attempt EXCEPT ![i] = n]
  /\ UNCHANGED <<ep_arguments, self>>

GetResponse(i) ==
  /\ pc[i] = "idle"
  /\ \E p \in Prompts : Invoke(i, p, 1)
  /\ first_params' = [first_params EXCEPT ![i] = new_params'[i]]

\* the remote call completes, with a response object or an exception
RemoteReply(i, outcomes) ==
  /\ pc[i] = "awaiting"
  /\ \E o \in outcomes : response' = [response EXCEPT ![i] = o]
  /\ pc' = [pc EXCEPT ![i] = "ready"]
  /\ UNCHANGED <<ep_arguments, self, prompt, new_params, result, attempt, first_params>>

\* variant: the response is kept in one slot shared by all calls
ResumeSharedSlot(i) ==
  /\ pc[i] = "ready"
  /\ LET j == CHOOSE c \in Calls : /\ pc[c] \in {"ready", "done"}
                                   /\ \A d \in Calls : pc[d] \in {"ready", "done"} => c <= d
     IN  result' = [result EXCEPT ![i] = Complete(response[j])]
  /\ pc' = [pc EXCEPT ![i] = "done"]
  /\ UNCHANGED <<ep_arguments, self, prompt, new_params, response, attempt, first_params>>

\* the coroutine resumes from the await and runs to its return or raise
Resume(i) ==
  /\ pc[i] = "ready"
  /\ result' = [result EXCEPT ![i] = Complete(response[i])]
  /\ pc' = [pc EXCEPT ![i] = "done"]
  /\ UNCHANGED <<ep_arguments, self, prompt, new_params, response, attempt, first_params>>

\* perform_retry: a raised call is invoked again with the same prompt
Retry(i) ==
  /\ pc[i] = "done"
  /\ result[i].kind = "raise"
  /\ attempt[i] < MaxAttempts
  /\ Invoke(i, prompt[i], attempt[i] + 1)
  /\ UNCHANGED first_params

\* the caller takes the result; the next get_response may start
Finish(i) ==
  /\ pc[i] = "done"
  /\ pc' = [pc EXCEPT ![i] = "idle"]
  /\ prompt' = [prompt EXCEPT ![i] = <<>>]
  /\ new_params' = [new_params EXCEPT ![i] = NoParams]
  /\ first_params' = [first_params EXCEPT ![i] = NoParams]
  /\ response' = [response EXCEPT ![i] = NoOutcome]
  /\ result' = [result EXCEPT ![i] = NoOutcome]
  /\ attempt' = [attempt EXCEPT ![i] = 0]
  /\ UNCHANGED <<ep_arguments, self>>

\* one caller, every shape of remote answer, retries
Next ==
  \/ GetResponse(1)
  \/ RemoteReply(1, RemoteOutcomes)
  \/ Resume(1)
  \/ Retry(1)
  \/ Finish(1)

Spec == Init /\ [][Next]_vars

\* several callers interleaving at the await of one connector
ConcNext ==
  \E i \in Calls :
    \/ GetResponse(i)
    \/ RemoteReply(i, ConcOutcomes)
    \/ Resume(i)
    \/ Finish(i)

ConcSpec == Init /\ [][ConcNext]_vars

TypeOK ==
  /\ \A i \in Calls : pc[i] \in {"idle", "awaiting", "ready", "done"}
  /\ \A i \in Calls : attempt[i] \in 0..MaxAttempts

(* ----------------------------- properties ----------------------------- *)

Done(i) == pc[i] = "done"
Sent(i) == pc[i] # "idle"
BadRequestOf(i) == response[i].kind = "raise" /\ response[i].value.cls = "BadRequestError"
BodyOf(i) == response[i].value.body

\* the absorbed shape of an error body, as the specification words it
CodeContains(code) ==
  \/ code.t = "str" /\ IsSubstring(ResponsibleAIPolicyViolation, code.v)
  \/ code.t = "list" /\ \E k \in 1..Len(code.v) : code.v[k] = PyStr(ResponsibleAIPolicyViolation)
  \/ code.t = "dict" /\ ResponsibleAIPolicyViolation \in DOMAIN code.v

PolicyRejection(b) ==
  /\ b.t = "dict"
  /\ K_innererror \in DOMAIN b.v
  /\ b.v[K_innererror].t = "dict"
  /\ K_code \in DOMAIN b.v[K_innererror].v
  /\ CodeContains(b.v[K_innererror].v[K_code])
  /\ K_message \in DOMAIN b.v

\* C1: a bad-request error whose body is a mapping with an innererror entry
\* holding a code that contains ResponsibleAIPolicyViolation, and with an outer
\* message, makes get_response return body["message"] instead of raising.
C1_PolicyRejectionReturned ==
  \A i \in Calls :
    (Done(i) /\ BadRequestOf(i) /\ PolicyRejection(BodyOf(i)))
      => result[i] = Return(BodyOf(i).v[K_message])

C1_Witness ==
  \E i \in Calls :
    /\ Done(i)
    /\ response[i] = Raise(Exc("BadRequestError",
         PyDict((K_innererror :> PyDict(K_code :> PyStr(<<"x">> \o ResponsibleAIPolicyViolation \o <<"y">>)))
                @@ (K_message :> PyStr(<<"r","e","j","e","c","t","e","d">>)))))
    /\ result[i] = Return(PyStr(<<"r","e","j","e","c","t","e","d">>))

\* C2: a bad-request error whose body has any shape other than the absorbed one
\* is re-raised unchanged: get_response neither returns a value nor raises a
\* different error.
C2_OtherBadRequestReraised ==
  \A i \in Calls :
    (Done(i) /\ BadRequestOf(i) /\ ~PolicyRejection(BodyOf(i)))
      => result[i] = response[i]

\* C3: a failure that is not a bad-request error (a timeout or another error of
\* the remote call, the index or attribute failure of extracting the first
\* choice) propagates unchanged: never returned as text, never replaced.
C3_OtherFailuresPropagate ==
  \A i \in Calls :
    Done(i) =>
      /\ (response[i].kind = "raise" /\ response[i].value.cls # "BadRequestError")
           => result[i] = response[i]
      /\ (response[i].kind = "return" /\ Len(response[i].value.choices) = 0)
           => result[i] = Raise(IndexError)
      /\ (response[i].kind = "return" /\ Len(response[i].value.choices) > 0
            /\ response[i].value.choices[1].message = PyNone)
           => result[i] = Raise(AttributeError)

C3_Witness ==
  \E i \in Calls :
    /\ Done(i)
    /\ response[i] = Raise(Exc("RateLimitError", RaiBody))
    /\ result[i] = Raise(Exc("RateLimitError", RaiBody))

\* C4: in the request sent, model, messages and timeout are the connector's
\* model, the turn sequence built for this call and the connector's timeout,
\* also when optional_params has keys of those names.
C4_ExplicitFieldsWin ==
  \A i \in Calls :
    Sent(i) =>
      /\ new_params[i]["model"] = self.model
      /\ new_params[i]["messages"] = openai_request(self, prompt[i])
      /\ new_params[i]["timeout"] = self.timeout
      /\ \A k \in DOMAIN self.optional_params \ {"model", "messages", "timeout"} :
            new_params[i][k] = self.optional_params[k]

C4_Witness ==
  \E i \in Calls :
    /\ Sent(i)
    /\ {"model", "messages", "timeout"} \subseteq DOMAIN self.optional_params
    /\ self.optional_params["messages"] # new_params[i]["messages"]
    /\ self.optional_params["timeout"] # new_params[i]["timeout"]
    /\ new_params[i]["timeout"] = self.timeout

UserTurns(m) == { k \in 1..Len(m) : m[k].role = "user" }

\* C5: the user turn sent carries pre + p + post for the prompt p (the empty
\* prompt included); the turn sequence has exactly one user turn, the last one.
C5_UserTurnWrapsPrompt ==
  \A i \in Calls :
    Sent(i) =>
      LET m == new_params[i]["messages"]
      IN  /\ Len(m) >= 1
          /\ UserTurns(m) = {Len(m)}
          /\ m[Len(m)].content =
               ep_arguments.pre_prompt \o prompt[i] \o ep_arguments.post_prompt

C5_Witness ==
  \E i \in Calls :
    /\ Sent(i)
    /\ prompt[i] = <<"h","i">>
    /\ ep_arguments.pre_prompt = <<"A">>
    /\ ep_arguments.post_prompt = <<"Z">>
    /\ new_params[i]["messages"][Len(new_params[i]["messages"])].content = <<"A","h","i","Z">>

\* C6: with a system prompt set (a non-empty one) the turn sequence sent is the
\* system turn carrying it followed by the user turn; otherwise it is the user
\* turn alone.
C6_SystemTurnFirst ==
  \A i \in Calls :
    Sent(i) =>
      LET m == new_params[i]["messages"]
      IN  IF ep_arguments.system_prompt # <<>>
          THEN /\ Len(m) = 2
               /\ m[1] = [role |-> "system", content |-> ep_arguments.system_prompt]
               /\ m[2].role = "user"
          ELSE /\ Len(m) = 1
               /\ m[1].role = "user"

C6_Witness ==
  \E i \in Calls :
    /\ Sent(i)
    /\ ep_arguments.system_prompt = <<"S">>
    /\ Len(new_params[i]["messages"]) = 2
    /\ new_params[i]["messages"][1].role = "system"

\* C7: a successful response with at least one choice makes get_response return
\* the content of the first choice's message, whatever the further choices are.
C7_FirstChoiceReturned ==
  \A i \in Calls :
    (Done(i) /\ response[i].kind = "return"
       /\ Len(response[i].value.choices) >= 1
       /\ response[i].value.choices[1].message.t = "obj")
      => result[i] = Return(response[i].value.choices[1].message.v.content)

C7_Witness ==
  \E i \in Calls :
    /\ Done(i)
    /\ response[i].kind = "return"
    /\ Len(response[i].value.choices) = 3
    /\ result[i] = Return(PyStr(<<"b">>))

\* C8: get_response leaves the connector as construction left it, whatever its
\* outcome, and a retried call sends the payload of the first attempt.
C8_ConnectorUnchanged ==
  /\ self = ConnectorInit(ep_arguments)
  /\ \A i \in Calls : Sent(i) => new_params[i] = first_params[i]

C8_Witness ==
  \E i \in Calls :
    /\ attempt[i] = MaxAttempts
    /\ Done(i)
    /\ new_params[i] = first_params[i]
    /\ "messages" \in DOMAIN self.optional_params

\* the values a call may produce from the remote outcome of its own request
OwnResult(i) ==
  \/ /\ response[i].kind = "return"
     /\ result[i].kind = "return"
     /\ \E k \in 1..Len(response[i].value.choices) :
          /\ response[i].value.choices[k].message.t = "obj"
          /\ result[i].value = response[i].value.choices[k].message.v.content
  \/ /\ response[i].kind = "raise"
     /\ result[i].kind = "raise"
     /\ result[i].value = response[i].value
  \/ /\ response[i].kind = "raise"
     /\ result[i].kind = "return"
     /\ BodyOf(i).t = "dict"
     /\ K_message \in DOMAIN BodyOf(i).v
     /\ result[i].value = BodyOf(i).v[K_message]
  \/ /\ result[i].kind = "raise"
     /\ result[i].value.cls \in {"TypeError", "IndexError", "AttributeError"}

\* C9: with calls interleaving at the await, the payload of each call comes from
\* its own prompt and the construction-time configuration, and its result from
\* the remote outcome of its own request; no call sees or alters another's.
C9_CallsIndependent ==
  \A i \in Calls :
    /\ Sent(i) =>
         /\ new_params[i]["model"] = DictGet(ep_arguments.optional_params, "model", "")
         /\ new_params[i]["timeout"] = ep_arguments.timeout
         /\ LET m == new_params[i]["messages"]
            IN  m[Len(m)].content =
                  ep_arguments.pre_prompt \o prompt[i] \o ep_arguments.post_prompt
    /\ Done(i) => OwnResult(i)
    /\ \A j \in Calls :
         /\ (Sent(i) /\ Sent(j) /\ prompt[i] = prompt[j]) => new_params[i] = new_params[j]
         /\ (Done(i) /\ Done(j) /\ response[i] = response[j]) => result[i] = result[j]

C9_Witness ==
  \E i, j \in Calls :
    /\ i # j
    /\ Done(i) /\ pc[j] = "ready"
    /\ prompt[i] # prompt[j]
    /\ response[i].kind = "raise" /\ response[j].kind = "return"
    /\ result[i] = Return(PyStr(<<"r","e","j","e","c","t","e","d">>))

\* C10: construction resolves api_version to the api_version entry of
\* optional_params, or "2024-02-01" without one, and model to the model entry,
\* or the empty string without one.
C10_Construction ==
  LET op == ep_arguments.optional_params
  IN  /\ self.api_version =
           (IF "api_version" \in DOMAIN op THEN op["api_version"] ELSE "2024-02-01")
      /\ self.client.api_version = self.api_version
      /\ self.model = (IF "model" \in DOMAIN op THEN op["model"] ELSE "")

C10_Witness ==
  /\ "model" \notin DOMAIN ep_arguments.optional_params
  /\ "api_version" \notin DOMAIN ep_arguments.optional_params
  /\ self.model = ""
  /\ self.api_version = "2024-02-01"
  /\ \E i \in Calls : Done(i)

====
